---- MODULE Spec2Model ----
(***************************************************************************)
(* GeoPackage tile-aware merge tool (merge.ts).  One run of the program    *)
(* is a sequence of steps: validate the two inputs, derive the output      *)
(* name, clone file A, open the clone, drop its data tables, create the    *)
(* merged tile table and its catalogue rows, merge B (REPLACE), merge A    *)
(* (IGNORE), finalize and check integrity, report.                         *)
(***************************************************************************)
EXTENDS Integers, Sequences, FiniteSets, TLC

VARIABLES fileA, fileB, argOutput, disk0, disk, finalOutputFilename,
          target, template, openHandles, everOpened,
          merged2, merged1, report, pc, err, exitCode

vars == <<fileA, fileB, argOutput, disk0, disk, finalOutputFilename,
          target, template, openHandles, everOpened,
          merged2, merged1, report, pc, err, exitCode>>

(***************************************************************************)
(* Bounds of the model.                                                    *)
(***************************************************************************)
MaxTables == 2
MaxPathLen == 6

\* tile keys (zoom_level, tile_column, tile_row)
Keys == {<<0, 0, 0>>, <<1, 0, 1>>}
ZoomOf(k) == k[1]
Zooms == {ZoomOf(k) : k \in Keys}

(***************************************************************************)
(* Errors.  Every throw site of merge.ts is `new Error(message)`: the      *)
(* thrown object has no `status` property.                                 *)
(***************************************************************************)
BAD_REQUEST == 400
NoError == [name |-> "none", status |-> {}]
Error(name) == [name |-> name, status |-> {}]
ExitCodeOf(e) == IF BAD_REQUEST \in e.status THEN 1 ELSE 2

(***************************************************************************)
(* Files.  A source path either does not exist, is something that cannot   *)
(* be opened as a database (a directory), is a file that is not a          *)
(* database, or is a GeoPackage with a list of user data tables.           *)
(***************************************************************************)
EmptyRows == [k \in {} |-> <<>>]
NonTileTable == [tile |-> FALSE, rows |-> EmptyRows,
                 contents |-> FALSE, tms |-> FALSE, tm |-> {}]
Missing == [exists |-> FALSE, kind |-> "none", tables |-> <<>>]
Directory == [exists |-> TRUE, kind |-> "dir", tables |-> <<>>]
Garbage == [exists |-> TRUE, kind |-> "garbage", tables |-> <<>>]
GeoPackage(tables) == [exists |-> TRUE, kind |-> "db", tables |-> tables]

\* catalogue rows registered for a tile table: complete (tile-matrix rows
\* for every zoom level, or for zoom level 0 only), or one part missing
CompleteMeta == [contents |-> TRUE, tms |-> TRUE, tm |-> Zooms]
MetaChoices ==
    {CompleteMeta,
     [contents |-> TRUE, tms |-> TRUE, tm |-> {0}],
     [contents |-> FALSE, tms |-> TRUE, tm |-> Zooms],
     [contents |-> TRUE, tms |-> FALSE, tm |-> Zooms],
     [contents |-> TRUE, tms |-> TRUE, tm |-> {}]}

TileShapes == {[tile |-> TRUE, keys |-> ks, meta |-> m] :
                  ks \in SUBSET Keys, m \in MetaChoices}
Shapes == TileShapes \cup {[tile |-> FALSE, keys |-> {}, meta |-> CompleteMeta]}

\* fs.existsSync
existsSync(f) == f.exists

\* columns.some(col => col.name === 'tile_data')
isTileTable(t) == t.tile

\* tables.find(isTileTable): index of the first tile table, 0 when none
FindTileTable(tables) ==
    IF \E i \in 1..Len(tables) : isTileTable(tables[i])
    THEN CHOOSE i \in 1..Len(tables) :
            /\ isTileTable(tables[i])
            /\ \A j \in 1..(i-1) : ~isTileTable(tables[j])
    ELSE 0

\* The catalogue rows of a table are read for the template table only, and
\* the template is a source's first tile table: the rows of later tables
\* are held complete.
ShapeLists ==
    UNION {{s \in [1..n -> Shapes] :
              \A i \in 1..n :
                 (s[i].tile /\ FindTileTable(s) # i) => s[i].meta = CompleteMeta}
           : n \in 0..MaxTables}

\* the payload of a row names the source and the table it comes from
BuildTable(src, i, sh) ==
    IF sh.tile
    THEN [tile |-> TRUE, rows |-> [k \in sh.keys |-> <<src, i>>],
          contents |-> sh.meta.contents, tms |-> sh.meta.tms, tm |-> sh.meta.tm]
    ELSE NonTileTable
SourceFiles(src) ==
    {GeoPackage([i \in 1..Len(s) |-> BuildTable(src, i, s[i])]) : s \in ShapeLists}

(***************************************************************************)
(* Naming: path.extname, String.prototype.replace, ensureUniqueOutputFile. *)
(***************************************************************************)
Chars == {"a", "g", "."}
Timestamp == <<"T">>
DefaultOutput == <<"a", ".", "g">>

LastDot(s) ==
    IF \E i \in 1..Len(s) : s[i] = "."
    THEN CHOOSE i \in 1..Len(s) :
            s[i] = "." /\ \A j \in (i+1)..Len(s) : s[j] # "."
    ELSE 0

\* path.extname of a path without directory separators
extname(s) ==
    LET d == LastDot(s)
    IN  IF d = 0 \/ d = 1 \/ (s[1] = "." /\ d = Len(s) /\ d = 2)
        THEN <<>>
        ELSE SubSeq(s, d, Len(s))

\* s.replace(sub, ''): the FIRST occurrence of sub is removed
ReplaceFirst(s, sub) ==
    IF sub = <<>> THEN s
    ELSE LET occ == {i \in 1..(Len(s) - Len(sub) + 1) :
                        SubSeq(s, i, i + Len(sub) - 1) = sub}
         IN  IF occ = {} THEN s
             ELSE LET i == CHOOSE x \in occ : \A y \in occ : x <= y
                  IN  SubSeq(s, 1, i - 1) \o SubSeq(s, i + Len(sub), Len(s))

ensureUniqueOutputFile(outputFilename, files) ==
    IF outputFilename \notin DOMAIN files THEN outputFilename
    ELSE LET ext == extname(outputFilename)
             nameWithoutExt == ReplaceFirst(outputFilename, ext)
         IN  nameWithoutExt \o <<"_">> \o Timestamp \o ext

(***************************************************************************)
(* The destination database (the clone of A).                              *)
(***************************************************************************)
NoTarget == [valid |-> FALSE, tables |-> <<>>, created |-> FALSE,
             rows |-> EmptyRows, contents |-> FALSE, tms |-> FALSE, tm |-> {},
             finalized |-> FALSE]
\* fs.copyFileSync(file1, out): the clone carries A's data tables
CloneOf(f) == [NoTarget EXCEPT !.valid = (f.kind = "db"), !.tables = f.tables]

\* new Database(path, {readonly: true}) succeeds
CanOpen(f) == f.exists /\ f.kind # "dir"
\* the first statement run on the handle succeeds
CanQuery(f) == f.kind = "db"

\* INSERT OR REPLACE / INSERT OR IGNORE ... SELECT: rows of the destination
InsertRowsSwapped(dest, rows, useIgnore) ==
    [k \in DOMAIN dest \cup DOMAIN rows |->
        IF k \in DOMAIN rows /\ (useIgnore \/ k \notin DOMAIN dest)
        THEN rows[k] ELSE dest[k]]
InsertRows(dest, rows, useIgnore) ==
    [k \in DOMAIN dest \cup DOMAIN rows |->
        IF k \in DOMAIN rows /\ (~useIgnore \/ k \notin DOMAIN dest)
        THEN rows[k] ELSE dest[k]]

\* result.changes: rows inserted; rows skipped by IGNORE are not counted,
\* rows deleted by REPLACE conflict resolution are not counted either
ChangesAttempted(dest, rows, useIgnore) == Cardinality(DOMAIN rows)
Changes(dest, rows, useIgnore) ==
    IF useIgnore THEN Cardinality(DOMAIN rows \ DOMAIN dest)
    ELSE Cardinality(DOMAIN rows)

\* the loop of mergeTileData over the source's data tables
RECURSIVE MergeLoop(_, _, _, _, _)
MergeLoop(dest, tables, i, useIgnore, totalTiles) ==
    IF i > Len(tables) THEN [rows |-> dest, totalTiles |-> totalTiles]
    ELSE IF ~isTileTable(tables[i])
         THEN MergeLoop(dest, tables, i + 1, useIgnore, totalTiles)
         ELSE MergeLoop(InsertRows(dest, tables[i].rows, useIgnore), tables,
                        i + 1, useIgnore,
                        totalTiles + Changes(dest, tables[i].rows, useIgnore))

mergeFirstTableOnly(dest, source, useIgnore) ==
    MergeLoop(dest, SubSeq(source.tables, 1, FindTileTable(source.tables)),
              1, useIgnore, 0)
mergeTileData(dest, source, useIgnore) ==
    MergeLoop(dest, source.tables, 1, useIgnore, 0)

\* copyTileMetadata: the three catalogue reads and writes, in order
copyTileMetadata(tbl, tgt) ==
    IF ~tbl.contents
    THEN [ok |-> FALSE, target |-> tgt]
    ELSE IF ~tbl.tms
    THEN [ok |-> FALSE, target |-> [tgt EXCEPT !.contents = TRUE]]
    ELSE IF tbl.tm = {}
    THEN [ok |-> FALSE, target |-> [tgt EXCEPT !.contents = TRUE, !.tms = TRUE]]
    ELSE [ok |-> TRUE,
          target |-> [tgt EXCEPT !.contents = TRUE, !.tms = TRUE,
                                 !.tm = tgt.tm \cup tbl.tm]]

NoTemplate == [src |-> "none", idx |-> 0]

(***************************************************************************)
(* Initial states: the arguments and the files on disk before the run.     *)
(***************************************************************************)
\* createOutputFilename: the custom output path, or the default name
createOutputFilename(customOutput) ==
    IF customOutput # <<>> THEN customOutput ELSE DefaultOutput

NoFiles == [p \in {} |-> "old"]
FilesAt(paths) == [p \in paths |-> "old"]

InitRun ==
    /\ disk = disk0
    /\ finalOutputFilename = <<>>
    /\ target = NoTarget
    /\ template = NoTemplate
    /\ openHandles = {}
    /\ everOpened = {}
    /\ merged2 = 0
    /\ merged1 = 0
    /\ report = [total |-> 0, zoomLevels |-> {}]
    /\ pc = "validate"
    /\ err = NoError
    /\ exitCode = -1

Init ==
    /\ fileA \in SourceFiles("A") \cup {Missing, Directory, Garbage}
    /\ fileB \in SourceFiles("B") \cup {Missing, Directory, Garbage}
    /\ argOutput = <<>>
    /\ disk0 = NoFiles
    /\ InitRun

(***************************************************************************)
(* The steps of a run.                                                     *)
(***************************************************************************)
\* the catch block: report, then process.exit(exitCode)
Fail(e) ==
    /\ pc' = "exit"
    /\ err' = e
    /\ exitCode' = ExitCodeOf(e)

\* validateFilesExist does not throw
validateFirstOnly(file1, file2) == existsSync(file1)
validateFilesExist(file1, file2) == existsSync(file1) /\ existsSync(file2)

ValidateFilesExist ==
    /\ pc = "validate"
    /\ IF validateFilesExist(fileA, fileB)
       THEN pc' = "name" /\ UNCHANGED <<err, exitCode>>
       ELSE Fail(Error("InputNotFound"))
    /\ UNCHANGED <<fileA, fileB, argOutput, disk0, disk, finalOutputFilename,
                   target, template, openHandles, everOpened, merged2, merged1,
                   report>>

\* fs.statSync of both inputs, createOutputFilename, ensureUniqueOutputFile
NameOutput ==
    /\ pc = "name"
    /\ IF existsSync(fileA) /\ existsSync(fileB)
       THEN /\ finalOutputFilename' =
                  ensureUniqueOutputFile(createOutputFilename(argOutput), disk)
            /\ pc' = "copy"
            /\ UNCHANGED <<err, exitCode>>
       ELSE /\ Fail(Error("StatFailed"))
            /\ UNCHANGED finalOutputFilename
    /\ UNCHANGED <<fileA, fileB, argOutput, disk0, disk,
                   target, template, openHandles, everOpened, merged2, merged1,
                   report>>

\* fs.copyFileSync(file1, finalOutputFilename)
CopyFile ==
    /\ pc = "copy"
    /\ IF fileA.kind = "dir"
       THEN /\ Fail(Error("CopyFailed"))
            /\ UNCHANGED <<disk, target>>
       ELSE /\ disk' = [p \in DOMAIN disk \cup {finalOutputFilename} |->
                          IF p = finalOutputFilename THEN "clone" ELSE disk[p]]
            /\ target' = CloneOf(fileA)
            /\ pc' = "open"
            /\ UNCHANGED <<err, exitCode>>
    /\ UNCHANGED <<fileA, fileB, argOutput, disk0, finalOutputFilename,
                   template, openHandles, everOpened, merged2, merged1, report>>

\* const targetDb = new Database(finalOutputFilename)
OpenTarget ==
    /\ pc = "open"
    /\ openHandles' = openHandles \cup {"target"}
    /\ everOpened' = everOpened \cup {"target"}
    /\ pc' = "cleanup"
    /\ UNCHANGED <<fileA, fileB, argOutput, disk0, disk, finalOutputFilename,
                   target, template, merged2, merged1, report, err, exitCode>>

\* cleanupExistingTables: every data table of the clone is dropped
cleanupExistingTables(tgt) == [tgt EXCEPT !.tables = <<>>]

CleanupExistingTables ==
    /\ pc = "cleanup"
    /\ IF target.valid
       THEN /\ target' = cleanupExistingTables(target)
            /\ pc' = "create"
            /\ UNCHANGED <<openHandles, err, exitCode>>
       ELSE /\ Fail(Error("NotADatabase"))
            /\ openHandles' = openHandles \ {"target"}
            /\ UNCHANGED target
    /\ UNCHANGED <<fileA, fileB, argOutput, disk0, disk, finalOutputFilename,
                   template, everOpened, merged2, merged1, report>>

\* createTileTable: CREATE TABLE, open both sources, choose the template,
\* copy its catalogue rows; `open` are the handles still open on return
createTileTable(tgt, file1, file2) ==
    LET created == [tgt EXCEPT !.created = TRUE]
        t1 == FindTileTable(file1.tables)
        t2 == FindTileTable(file2.tables)
        tbl == IF t1 # 0 THEN file1.tables[t1] ELSE file2.tables[t2]
        copied == copyTileMetadata(tbl, created)
    IN  IF ~CanOpen(file1)
        THEN [err |-> Error("OpenFailed"), target |-> created,
              template |-> NoTemplate, opened |-> {}, open |-> {}]
        ELSE IF ~CanOpen(file2)
        THEN [err |-> Error("OpenFailed"), target |-> created,
              template |-> NoTemplate, opened |-> {"src1"}, open |-> {"src1"}]
        ELSE IF ~CanQuery(file1) \/ ~CanQuery(file2)
        THEN [err |-> Error("NotADatabase"), target |-> created,
              template |-> NoTemplate, opened |-> {"src1", "src2"}, open |-> {}]
        ELSE IF t1 = 0 /\ t2 = 0
        THEN [err |-> Error("NoTileTablesFound"), target |-> created,
              template |-> NoTemplate, opened |-> {"src1", "src2"}, open |-> {}]
        ELSE [err |-> IF copied.ok THEN NoError ELSE Error("MissingMetadata"),
              target |-> copied.target,
              template |-> IF t1 # 0 THEN [src |-> "A", idx |-> t1]
                                     ELSE [src |-> "B", idx |-> t2],
              opened |-> {"src1", "src2"}, open |-> {}]

CreateTileTable ==
    /\ pc = "create"
    /\ LET r == createTileTable(target, fileA, fileB)
       IN  /\ target' = r.target
           /\ template' = r.template
           /\ everOpened' = everOpened \cup r.opened
           /\ IF r.err = NoError
              THEN /\ pc' = "mergeB"
                   /\ openHandles' = openHandles \cup r.open
                   /\ UNCHANGED <<err, exitCode>>
              ELSE /\ Fail(r.err)
                   /\ openHandles' = (openHandles \ {"target"}) \cup r.open
    /\ UNCHANGED <<fileA, fileB, argOutput, disk0, disk, finalOutputFilename,
                   merged2, merged1, report>>

\* mergeTileData(targetDb, outputTableName, file2, file2Name, false)
MergeB ==
    /\ pc = "mergeB"
    /\ IF ~CanOpen(fileB)
       THEN /\ Fail(Error("OpenFailed"))
            /\ openHandles' = openHandles \ {"target"}
            /\ UNCHANGED <<target, merged2, everOpened>>
       ELSE /\ everOpened' = everOpened \cup {"mergeB"}
            /\ IF ~CanQuery(fileB)
               THEN /\ Fail(Error("NotADatabase"))
                    /\ openHandles' = openHandles \ {"target"}
                    /\ UNCHANGED <<target, merged2>>
               ELSE LET r == mergeTileData(target.rows, fileB, FALSE)
                    IN  /\ target' = [target EXCEPT !.rows = r.rows]
                        /\ merged2' = r.totalTiles
                        /\ pc' = "mergeA"
                        /\ UNCHANGED <<openHandles, err, exitCode>>
    /\ UNCHANGED <<fileA, fileB, argOutput, disk0, disk, finalOutputFilename,
                   template, merged1, report>>

\* mergeTileData(targetDb, outputTableName, file1, file1Name, true)
MergeA ==
    /\ pc = "mergeA"
    /\ IF ~CanOpen(fileA)
       THEN /\ Fail(Error("OpenFailed"))
            /\ openHandles' = openHandles \ {"target"}
            /\ UNCHANGED <<target, merged1, everOpened>>
       ELSE /\ everOpened' = everOpened \cup {"mergeA"}
            /\ IF ~CanQuery(fileA)
               THEN /\ Fail(Error("NotADatabase"))
                    /\ openHandles' = openHandles \ {"target"}
                    /\ UNCHANGED <<target, merged1>>
               ELSE LET r == mergeTileData(target.rows, fileA, TRUE)
                    IN  /\ target' = [target EXCEPT !.rows = r.rows]
                        /\ merged1' = r.totalTiles
                        /\ pc' = "finalize"
                        /\ UNCHANGED <<openHandles, err, exitCode>>
    /\ UNCHANGED <<fileA, fileB, argOutput, disk0, disk, finalOutputFilename,
                   template, merged2, report>>

\* finalizeGeoPackage, then PRAGMA integrity_check, whose answer the
\* storage decides
FinalizeAndCheck ==
    /\ pc = "finalize"
    /\ target' = [target EXCEPT !.finalized = TRUE]
    /\ \E integrityOk \in BOOLEAN :
          IF integrityOk
          THEN pc' = "report" /\ UNCHANGED <<openHandles, err, exitCode>>
          ELSE /\ Fail(Error("MergeCorrupted"))
               /\ openHandles' = openHandles \ {"target"}
    /\ UNCHANGED <<fileA, fileB, argOutput, disk0, disk, finalOutputFilename,
                   template, everOpened, merged2, merged1, report>>

\* the summary line, targetDb.close(), normal exit
Report ==
    /\ pc = "report"
    /\ report' = [total |-> Cardinality(DOMAIN target.rows),
                  zoomLevels |-> {ZoomOf(k) : k \in DOMAIN target.rows}]
    /\ openHandles' = openHandles \ {"target"}
    /\ pc' = "exit"
    /\ exitCode' = 0
    /\ UNCHANGED <<fileA, fileB, argOutput, disk0, disk, finalOutputFilename,
                   target, template, everOpened, merged2, merged1, err>>

Next ==
    \/ ValidateFilesExist
    \/ NameOutput
    \/ CopyFile
    \/ OpenTarget
    \/ CleanupExistingTables
    \/ CreateTileTable
    \/ MergeB
    \/ MergeA
    \/ FinalizeAndCheck
    \/ Report

Spec == Init /\ [][Next]_vars

(***************************************************************************)
(* Naming runs: well-formed or missing sources, every short output path,   *)
(* and the requested path present or absent on disk before the run.        *)
(***************************************************************************)
Paths == UNION {[1..n -> Chars] : n \in 0..MaxPathLen}
    \ {<<".">>, <<".", ".">>}
PlainSource(src) ==
    GeoPackage(<<BuildTable(src, 1,
        [tile |-> TRUE, keys |-> Keys, meta |-> CompleteMeta])>>)

InitNaming ==
    /\ fileA \in {PlainSource("A"), Missing}
    /\ fileB \in {PlainSource("B"), Missing}
    /\ argOutput \in Paths
    /\ disk0 \in {NoFiles, FilesAt({createOutputFilename(argOutput)})}
    /\ InitRun

SpecNaming == InitNaming /\ [][Next]_vars

Success == pc = "exit" /\ err = NoError
(***************************************************************************)
(* Vocabulary of the properties.                                           *)
(***************************************************************************)
TileTablesOf(f) == {i \in 1..Len(f.tables) : isTileTable(f.tables[i])}
\* the tile keys of a source, over all its tile tables
KeysOf(f) == UNION {DOMAIN f.tables[i].rows : i \in TileTablesOf(f)}
\* the payloads a source stores under a key
PayloadsAt(f, k) ==
    {f.tables[i].rows[k] : i \in {j \in TileTablesOf(f) : k \in DOMAIN f.tables[j].rows}}
\* the number of tile rows of a source, over all its tile tables
RECURSIVE SumRows(_, _)
SumRows(f, i) ==
    IF i > Len(f.tables) THEN 0
    ELSE (IF isTileTable(f.tables[i]) THEN Cardinality(DOMAIN f.tables[i].rows) ELSE 0)
         + SumRows(f, i + 1)
TileCount(f) == SumRows(f, 1)
\* no key occurs in two tile tables of the source
NoSharedKeys(f) == TileCount(f) = Cardinality(KeysOf(f))
\* a tile table that satisfies the preconditions of copyTileMetadata
Qualifies(t) == isTileTable(t) /\ t.contents /\ t.tms /\ t.tm # {}
HasQualifying(f) == \E i \in 1..Len(f.tables) : Qualifies(f.tables[i])
HasTileTable(f) == TileTablesOf(f) # {}
OutputOnDisk == finalOutputFilename \in DOMAIN disk /\ disk[finalOutputFilename] = "clone"

\* C1: after a successful merge every key present in both A and B carries a
\* payload of B and not one of A; and B's REPLACE merge is complete, with
\* every key of B holding a payload of B, when A's IGNORE merge starts.
C1_PriorityLaw ==
    /\ Success =>
          \A k \in KeysOf(fileA) \cap KeysOf(fileB) :
             /\ k \in DOMAIN target.rows
             /\ target.rows[k] \in PayloadsAt(fileB, k)
             /\ target.rows[k] \notin PayloadsAt(fileA, k)
    /\ pc = "mergeA" =>
          /\ DOMAIN target.rows = KeysOf(fileB)
          /\ \A k \in KeysOf(fileB) : target.rows[k] \in PayloadsAt(fileB, k)
C1_Witness ==
    /\ Success
    /\ KeysOf(fileA) \cap KeysOf(fileB) # {}
    /\ KeysOf(fileA) \ KeysOf(fileB) # {}

\* C2 (as stated): for disjoint key sets the merged table has
\* |A-tiles| + |B-tiles| rows and every tile of A and of B is present at its
\* key with its payload.
C2_DisjointAsStated ==
    (Success /\ KeysOf(fileA) \cap KeysOf(fileB) = {}) =>
        /\ Cardinality(DOMAIN target.rows) = TileCount(fileA) + TileCount(fileB)
        /\ \A f \in {fileA, fileB} : \A i \in TileTablesOf(f) :
              \A k \in DOMAIN f.tables[i].rows :
                 k \in DOMAIN target.rows /\ target.rows[k] = f.tables[i].rows[k]
\* C2 (amended): the same, for sources in which no key occurs in two tile
\* tables of the same file.
C2_DisjointUnion ==
    (/\ Success
     /\ KeysOf(fileA) \cap KeysOf(fileB) = {}
     /\ NoSharedKeys(fileA) /\ NoSharedKeys(fileB)) =>
        /\ Cardinality(DOMAIN target.rows) = TileCount(fileA) + TileCount(fileB)
        /\ \A f \in {fileA, fileB} : \A i \in TileTablesOf(f) :
              \A k \in DOMAIN f.tables[i].rows :
                 k \in DOMAIN target.rows /\ target.rows[k] = f.tables[i].rows[k]
        /\ target.tables = <<>>
C2_Witness ==
    /\ Success
    /\ KeysOf(fileA) \cap KeysOf(fileB) = {}
    /\ NoSharedKeys(fileA) /\ NoSharedKeys(fileB)
    /\ Cardinality(TileTablesOf(fileA)) = 2
    /\ KeysOf(fileA) # {} /\ KeysOf(fileB) # {}

\* C3: when neither source has a tile table the run fails with
\* NoTileTablesFound, and at that moment no output file exists and no
\* destination table has been created.
C3_NoTileTablesBeforeWrite ==
    (pc = "exit" /\ fileA.kind = "db" /\ fileB.kind = "db"
        /\ ~HasTileTable(fileA) /\ ~HasTileTable(fileB)) =>
        /\ err.name = "NoTileTablesFound"
        /\ ~OutputOnDisk
        /\ ~target.created

\* C4: the exit code is 0 on success, and a validation failure exits with a
\* positive code different from the code of an operational failure.
C4_DistinctExitCodes ==
    /\ Success => exitCode = 0
    /\ (pc = "exit" /\ err.name = "InputNotFound") =>
          /\ exitCode > 0
          /\ exitCode # ExitCodeOf(Error("NoTileTablesFound"))
          /\ exitCode # ExitCodeOf(Error("MissingMetadata"))
          /\ exitCode # ExitCodeOf(Error("MergeCorrupted"))

\* C5: when a source path does not exist the run ends with InputNotFound,
\* the files on disk are those from before the run, and no database handle
\* was opened.
C5_InputNotFound ==
    (pc = "exit" /\ (~existsSync(fileA) \/ ~existsSync(fileB))) =>
        /\ err.name = "InputNotFound"
        /\ exitCode > 0
        /\ disk = disk0
        /\ everOpened = {}
        /\ target = NoTarget
C5_Witness ==
    /\ pc = "exit"
    /\ existsSync(fileA) /\ ~existsSync(fileB)
    /\ err.name = "InputNotFound"

\* C6: after a successful merge the tile-matrix rows of the output table
\* are exactly the zoom levels at which it holds tiles.
C6_TileMatrixMatchesTiles ==
    Success => target.tm = {ZoomOf(k) : k \in DOMAIN target.rows}

\* C7 (as stated): on success the count reported for B is the number of
\* rows B contributed, the count reported for A is the number of A's keys
\* that B did not supply, and the two counts sum to the row count of the
\* destination table.
C7_CountsAsStated ==
    Success =>
        /\ merged2 = Cardinality(KeysOf(fileB))
        /\ merged1 = Cardinality(KeysOf(fileA) \ KeysOf(fileB))
        /\ merged1 + merged2 = Cardinality(DOMAIN target.rows)
        /\ report.total = Cardinality(DOMAIN target.rows)
\* C7 (amended): the count reported for B is the number of rows read from
\* B's tile tables, the count for A is the number of A's keys B did not
\* supply; when no key occurs in two tile tables of B the count for B is the
\* number of rows B contributed and the two counts sum to the total.
C7_Counts ==
    Success =>
        /\ merged2 = TileCount(fileB)
        /\ merged1 = Cardinality(KeysOf(fileA) \ KeysOf(fileB))
        /\ report.total = Cardinality(DOMAIN target.rows)
        /\ NoSharedKeys(fileB) =>
              /\ merged2 = Cardinality(KeysOf(fileB))
              /\ merged1 + merged2 = report.total
C7_Witness ==
    /\ Success
    /\ KeysOf(fileA) = {<<0, 0, 0>>}
    /\ KeysOf(fileB) = {<<0, 0, 0>>, <<1, 0, 1>>}
    /\ NoSharedKeys(fileB)
    /\ merged2 = 2 /\ merged1 = 0 /\ report.total = 2

\* the requested name with the timestamp put before its extension
WithoutExtension(s) == SubSeq(s, 1, Len(s) - Len(extname(s)))
Suffixed(s) == WithoutExtension(s) \o <<"_">> \o Timestamp \o extname(s)

\* C8: when the chosen output path exists before the run, the file written
\* is the requested name suffixed with a timestamp, and every file that
\* existed before the run has unchanged contents.
C8_ExistingOutputUntouched ==
    (pc \in {"open", "cleanup", "create", "mergeB", "mergeA", "finalize", "report"}
        /\ createOutputFilename(argOutput) \in DOMAIN disk0) =>
        /\ OutputOnDisk
        /\ finalOutputFilename = Suffixed(createOutputFilename(argOutput))
        /\ \A p \in DOMAIN disk0 : p \in DOMAIN disk /\ disk[p] = disk0[p]

\* C9: when both sources have a qualifying tile table A's is the template;
\* when only one has, that source's table is the template and the merge
\* proceeds; the merge fails for lack of a template only when neither
\* source has any tile table.
TemplateTable ==
    IF template.src = "A" THEN fileA.tables[template.idx]
    ELSE fileB.tables[template.idx]
TemplateFailure == err.name \in {"NoTileTablesFound", "MissingMetadata"}
C9_TemplateSelection ==
    (pc = "exit" /\ fileA.kind = "db" /\ fileB.kind = "db") =>
        /\ (HasQualifying(fileA) /\ HasQualifying(fileB)) =>
              template.src = "A" /\ Qualifies(TemplateTable) /\ ~TemplateFailure
        /\ (HasQualifying(fileA) /\ ~HasQualifying(fileB)) =>
              template.src = "A" /\ Qualifies(TemplateTable) /\ ~TemplateFailure
        /\ (~HasQualifying(fileA) /\ HasQualifying(fileB)) =>
              template.src = "B" /\ Qualifies(TemplateTable) /\ ~TemplateFailure
        /\ TemplateFailure => (~HasTileTable(fileA) /\ ~HasTileTable(fileB))

\* C10: when the process exits, every database connection that was opened
\* has been closed.
C10_HandlesClosed ==
    pc = "exit" => openHandles = {}

====
